---- MODULE Spec2Model ----
(***************************************************************************)
(* Verification model of the RAVATAR API demo client.                      *)
(*                                                                         *)
(*   HttpClient       (retrying, token-refreshing request client)          *)
(*   RavatarWsClient  (reconnecting socket client)                         *)
(*   ChatPanel        (session controller and voice capture)               *)
(*                                                                         *)
(* Each component has its own next-state relation and specification over   *)
(* the common variables; the variables of the other components stay at     *)
(* their initial values.                                                   *)
(***************************************************************************)
EXTENDS Integers, Sequences, FiniteSets, TLC

(***************************************************************************)
(* Bounds of the model                                                     *)
(***************************************************************************)
\* number of logical HttpClient calls that may run concurrently
NCalls == 2
\* number of WebSocket objects one RavatarWsClient may create
MaxSockets == 4
\* number of RavatarWsClient objects one ChatPanel may create
MaxClients == 2
\* number of microphone acquisitions one ChatPanel may start
MaxRec == 2
\* number of startLiveSession requests one ChatPanel may issue
MaxLive == 3
\* number of frames one RavatarWsClient may transmit
MaxFrames == 2
\* number of frames one RavatarWsClient may receive
MaxInbound == 2
\* number of getChatHistory requests in flight
MaxLoads == 2
\* number of turns the live session appends to the message list
MaxTurns == 2

(***************************************************************************)
(* Program constants                                                       *)
(***************************************************************************)
MAX_RETRY_ATTEMPTS == 3
BASE_RETRY_DELAY_MS == 1000
AUTH_EXPIRED_STATUS_CODE == 403
PAYMENT_REQUIRED_STATUS_CODE == 402
RETRYABLE_STATUS_CODES == {503, 504}
\* RavatarWsClient: defaults of the constructor
RECONNECT_ATTEMPTS == 3
RECONNECT_DELAY == 2000
\* ChatPanel: push-to-talk hold threshold
MIN_PTT_HOLD_MS == 200
VAD_SILENCE_MS == 900
VAD_MAX_MS == 15000
\* the reading of Date.now() when an analyser is set up
Epoch == 1
\* the time between two frames of the analyser loop
TickIntervals == {500, 900}

\* the statuses the server may answer with: success, the three classified
\* failures and one unclassified failure
OK_STATUS == 200
OTHER_STATUS == 404
Statuses == {OK_STATUS, PAYMENT_REQUIRED_STATUS_CODE, AUTH_EXPIRED_STATUS_CODE,
             OTHER_STATUS} \cup RETRYABLE_STATUS_CODES

\* body of a response: JSON, not JSON, or declared JSON that fails to parse
Bodies == {"json", "nonjson", "badjson"}

VARIABLES
    \* ---- HttpClient ----
    jwtToken,         \* 0 = null, k > 0 = token returned by the k-th refreshJwt()
    refreshPromise,   \* 0 = null, k > 0 = promise of the k-th refreshJwt()
    hasRefreshJwt,    \* config.refreshJwt is provided
    refreshInFlight,  \* refreshJwt() invocations not yet settled
    refreshJwtCalls,  \* number of refreshJwt() invocations so far
    call,             \* the logical calls, one record per call
    sentToken,        \* bearer token in the headers of the latest request
    \* ---- RavatarWsClient ----
    wsClient,         \* the client object, with the WebSocket objects it made
    \* ---- ChatPanel ----
    cp,               \* the component: its state, its refs, its recordings
    clients,          \* the RavatarWsClient objects it has created
    ptt               \* the pointer on the push-to-talk button

httpVars == <<jwtToken, refreshPromise, hasRefreshJwt, refreshInFlight,
              refreshJwtCalls, call, sentToken>>

wsVars == <<wsClient>>

panelVars == <<cp, clients, ptt>>

vars == <<httpVars, wsVars, panelVars>>

Calls == 1..NCalls

NoErr == [kind |-> "none", status |-> 0]

(***************************************************************************)
(* HttpClient                                                              *)
(***************************************************************************)
HttpInit ==
    /\ jwtToken = 0
    /\ refreshPromise = 0
    /\ hasRefreshJwt \in BOOLEAN
    /\ refreshInFlight = {}
    /\ refreshJwtCalls = 0
    /\ sentToken = 0
    /\ call = [c \in Calls |->
                 [pc          |-> "idle",
                  retryCount  |-> 0,
                  requests    |-> 0,     \* fetch() invocations
                  nResponses  |-> 0,     \* responses received
                  nRetryable  |-> 0,     \* 503/504 responses among them
                  first403    |-> FALSE, \* the first response was a 403
                  last        |-> 0,     \* status of the latest response
                  parseFailed |-> FALSE, \* response.json() threw on a success
                  delays      |-> <<>>,  \* backoff delays waited, in order
                  refreshes   |-> 0,     \* refreshToken() invocations
                  awaiting    |-> 0,     \* refresh promise being awaited
                  timer       |-> FALSE, \* the timeout of the attempt is armed
                  aborted     |-> FALSE, \* the timeout aborted an attempt
                  err         |-> NoErr]]

\* buildHeaders: the bearer token of the Authorization header (0: the API
\* key, or no header)
buildHeaders(token) == token

\* a refresh that does not store the token it resolved with
setJwtTokenDropped(held, token) == held

\* setJwtToken
setJwtToken(held, token) == token

\* a replay after a refresh that starts over with a retry count of its own
IssueFetchFreshCount(r, rc) ==
    [r EXCEPT !.pc = "fetching",
              !.retryCount = IF r.pc = "awaitRefresh" THEN 0 ELSE rc,
              !.requests = @ + 1,
              !.awaiting = 0,
              !.timer = TRUE]

\* one invocation of request(): the headers are built from the current token
\* and fetch() is issued
IssueFetch(r, rc) ==
    [r EXCEPT !.pc = "fetching",
              !.retryCount = rc,
              !.requests = @ + 1,
              !.awaiting = 0,
              !.timer = TRUE]

Reject(r, kind, status) ==
    [r EXCEPT !.pc = "rejected", !.err = [kind |-> kind, status |-> status],
              !.awaiting = 0, !.timer = FALSE]

Received(r, status) ==
    [r EXCEPT !.timer = FALSE,
              !.nResponses = @ + 1,
              !.nRetryable = IF status \in RETRYABLE_STATUS_CODES THEN @ + 1 ELSE @,
              !.first403 = IF r.nResponses = 0
                           THEN status = AUTH_EXPIRED_STATUS_CODE ELSE @,
              !.last = status]

\* classification of a non-success status, in the order the code tests it
ClassifyPaymentAsRetryable(status) ==
    IF status = AUTH_EXPIRED_STATUS_CODE THEN "auth"
    ELSE IF status \in RETRYABLE_STATUS_CODES \cup {PAYMENT_REQUIRED_STATUS_CODE}
         THEN "retryable"
    ELSE "other"

Classify(status) ==
    IF status = AUTH_EXPIRED_STATUS_CODE THEN "auth"
    ELSE IF status = PAYMENT_REQUIRED_STATUS_CODE THEN "payment"
    ELSE IF status \in RETRYABLE_STATUS_CODES THEN "retryable"
    ELSE "other"

\* 403 is answered by a refresh only on the first attempt
RefreshOnEvery403(retryCount) == TRUE

FirstAttempt(retryCount) == retryCount = 0

\* 503/504 is retried while the retry count is below the ceiling
CanRetryInclusive(retryCount) == retryCount <= MAX_RETRY_ATTEMPTS

CanRetry(retryCount) == retryCount < MAX_RETRY_ATTEMPTS

\* exponential backoff
RetryDelayLinear(retryCount) == (retryCount + 1) * BASE_RETRY_DELAY_MS

RetryDelay(retryCount) == (2 ^ retryCount) * BASE_RETRY_DELAY_MS

\* refreshToken(): a refresh is already pending
RefreshPendingIgnored == FALSE

RefreshPending == refreshPromise # 0

\* get/post/put/delete: a logical call starts with retryCount = 0
HttpStart(c) ==
    /\ call[c].pc = "idle"
    /\ call' = [call EXCEPT ![c] = IssueFetch(@, 0)]
    /\ sentToken' = buildHeaders(jwtToken)
    /\ UNCHANGED <<jwtToken, refreshPromise, hasRefreshJwt, refreshInFlight,
                   refreshJwtCalls, wsVars, panelVars>>

\* fetch() resolves with a response: the body of request() after the await
HttpRespond(c, status, body) ==
    /\ call[c].pc = "fetching"
    /\ LET r == Received(call[c], status) IN
       IF status = OK_STATUS
       THEN \* success: {} for a non-JSON body, the parsed body otherwise; a
            \* body that fails to parse throws into the catch block
            /\ call' = [call EXCEPT ![c] =
                  IF body = "badjson"
                  THEN Reject([r EXCEPT !.parseFailed = TRUE], "NetworkError", 0)
                  ELSE [r EXCEPT !.pc = "resolved"]]
            /\ UNCHANGED <<refreshPromise, refreshInFlight, refreshJwtCalls>>
       ELSE IF Classify(status) = "auth"
       THEN IF FirstAttempt(r.retryCount)
            THEN \* await this.refreshToken()
                 LET q == [r EXCEPT !.refreshes = @ + 1] IN
                 IF ~hasRefreshJwt
                 THEN /\ call' = [call EXCEPT ![c] =
                            Reject(q, "RavatarApiError", AUTH_EXPIRED_STATUS_CODE)]
                      /\ UNCHANGED <<refreshPromise, refreshInFlight,
                                     refreshJwtCalls, wsVars, panelVars>>
                 ELSE IF ~RefreshPending
                 THEN LET id == refreshJwtCalls + 1 IN
                      /\ refreshJwtCalls' = id
                      /\ refreshInFlight' = refreshInFlight \cup {id}
                      /\ refreshPromise' = id
                      /\ call' = [call EXCEPT ![c] =
                            [q EXCEPT !.pc = "awaitRefresh", !.awaiting = id]]
                 ELSE /\ call' = [call EXCEPT ![c] =
                            [q EXCEPT !.pc = "awaitRefresh",
                                      !.awaiting = refreshPromise]]
                      /\ UNCHANGED <<refreshPromise, refreshInFlight,
                                     refreshJwtCalls, wsVars, panelVars>>
            ELSE /\ call' = [call EXCEPT ![c] = Reject(r, "RavatarApiError", status)]
                 /\ UNCHANGED <<refreshPromise, refreshInFlight, refreshJwtCalls>>
       ELSE IF Classify(status) = "payment"
       THEN /\ call' = [call EXCEPT ![c] = Reject(r, "RavatarApiError", status)]
            /\ UNCHANGED <<refreshPromise, refreshInFlight, refreshJwtCalls>>
       ELSE IF Classify(status) = "retryable"
       THEN /\ call' = [call EXCEPT ![c] =
                  IF CanRetry(r.retryCount)
                  THEN [r EXCEPT !.pc = "backoff",
                                 !.delays = Append(@, RetryDelay(r.retryCount))]
                  ELSE Reject(r, "RavatarApiError", status)]
            /\ UNCHANGED <<refreshPromise, refreshInFlight, refreshJwtCalls>>
       ELSE /\ call' = [call EXCEPT ![c] = Reject(r, "RavatarApiError", status)]
            /\ UNCHANGED <<refreshPromise, refreshInFlight, refreshJwtCalls>>
    /\ UNCHANGED <<jwtToken, sentToken, hasRefreshJwt, wsVars, panelVars>>

\* the attempts a firing timeout aborts, were the AbortController shared
AbortsEveryFetch(c) == {d \in Calls : call[d].pc = "fetching"}

\* the attempts the timeout of the attempt of call c aborts: the
\* AbortController is created by the invocation of request() that arms it
Aborts(c) == {c}

\* the timeout of the attempt of call c fires: controller.abort() makes
\* fetch() reject with an AbortError, the catch block throws
\* NetworkError("Request timeout")
HttpTimeout(c) ==
    /\ call[c].pc = "fetching"
    /\ call[c].timer
    /\ call' = [d \in Calls |->
                  IF d \in Aborts(c)
                  THEN Reject([call[d] EXCEPT !.aborted = TRUE], "NetworkError", 0)
                  ELSE call[d]]
    /\ UNCHANGED <<jwtToken, sentToken, refreshPromise, hasRefreshJwt, refreshInFlight,
                   refreshJwtCalls, wsVars, panelVars>>

\* fetch() rejects: the network failed (a rejection by the timeout is
\* HttpTimeout, which differs by the aborted mark only)
HttpFetchFail(c) ==
    /\ call[c].pc = "fetching"
    /\ call' = [call EXCEPT ![c] = Reject(@, "NetworkError", 0)]
    /\ UNCHANGED <<jwtToken, sentToken, refreshPromise, hasRefreshJwt, refreshInFlight,
                   refreshJwtCalls, wsVars, panelVars>>

\* the backoff timer fires: request() is re-entered with retryCount + 1
HttpBackoffElapsed(c) ==
    /\ call[c].pc = "backoff"
    /\ call' = [call EXCEPT ![c] = IssueFetch(@, @.retryCount + 1)]
    /\ sentToken' = buildHeaders(jwtToken)
    /\ UNCHANGED <<jwtToken, refreshPromise, hasRefreshJwt, refreshInFlight,
                   refreshJwtCalls, wsVars, panelVars>>

\* refreshJwt() resolves: the token is stored, the slot is cleared and every
\* call awaiting the promise re-enters request() with retryCount + 1
HttpRefreshResolve(id) ==
    /\ id \in refreshInFlight
    /\ refreshInFlight' = refreshInFlight \ {id}
    /\ jwtToken' = setJwtToken(jwtToken, id)
    /\ refreshPromise' = 0
    /\ call' = [c \in Calls |->
                  IF call[c].pc = "awaitRefresh" /\ call[c].awaiting = id
                  THEN IssueFetch(call[c], call[c].retryCount + 1)
                  ELSE call[c]]
    /\ sentToken' = IF \E c \in Calls : call[c].pc = "awaitRefresh"
                                         /\ call[c].awaiting = id
                    THEN buildHeaders(jwtToken') ELSE sentToken
    /\ UNCHANGED <<hasRefreshJwt, refreshJwtCalls, wsVars, panelVars>>

\* a rejection of refreshJwt() that leaves the rejected promise in the slot
\* (the slot cleared on success only)
HttpRefreshRejectKeepsSlot(id) ==
    /\ id \in refreshInFlight
    /\ refreshInFlight' = refreshInFlight \ {id}
    /\ call' = [c \in Calls |->
                  IF call[c].pc = "awaitRefresh" /\ call[c].awaiting = id
                  THEN Reject(call[c], "NetworkError", 0)
                  ELSE call[c]]
    /\ UNCHANGED <<jwtToken, sentToken, refreshPromise, hasRefreshJwt,
                   refreshJwtCalls, wsVars, panelVars>>

\* refreshJwt() rejects: the slot is cleared, the awaiting calls fail in the
\* catch block of request()
HttpRefreshReject(id) ==
    /\ id \in refreshInFlight
    /\ refreshInFlight' = refreshInFlight \ {id}
    /\ refreshPromise' = 0
    /\ call' = [c \in Calls |->
                  IF call[c].pc = "awaitRefresh" /\ call[c].awaiting = id
                  THEN Reject(call[c], "NetworkError", 0)
                  ELSE call[c]]
    /\ UNCHANGED <<jwtToken, sentToken, hasRefreshJwt, refreshJwtCalls, wsVars, panelVars>>

HttpNext ==
    \/ \E c \in Calls : HttpStart(c)
    \/ \E c \in Calls, s \in Statuses, b \in Bodies : HttpRespond(c, s, b)
    \/ \E c \in Calls : HttpFetchFail(c)
    \/ \E c \in Calls : HttpBackoffElapsed(c)
    \/ \E id \in 1..NCalls : HttpRefreshResolve(id)
    \/ \E id \in 1..NCalls : HttpRefreshReject(id)

(***************************************************************************)
(* RavatarWsClient                                                         *)
(*                                                                         *)
(* A client is a record: the fields of the object, the WebSocket objects   *)
(* it has created (sock[i] is the readyState of the i-th one; its handlers *)
(* stay attached whether or not this.ws still refers to it), the pending   *)
(* setTimeout callbacks (the delay of each, in scheduling order), and      *)
(* what the subscribers have observed.                                     *)
(***************************************************************************)
NewWsClient ==
    [ws              |-> 0,       \* 0 = null, i > 0 = the i-th WebSocket
     reconnectCount  |-> 0,
     shouldReconnect |-> TRUE,
     sock            |-> <<>>,
     timers          |-> <<>>,
     closes          |-> 0,       \* unexpected closes since the last open
     notified        |-> 0,       \* invocations of the close handlers
     sent            |-> 0,       \* frames handed to WebSocket.send
     frames          |-> <<>>,    \* frames received: TRUE = it parses
     delivered       |-> <<>>,    \* "message" events emitted: index in frames
     userClosed      |-> FALSE]   \* disconnect() called, connect() not since

\* connect(): the guard of the early return
AlreadyOpen(c) == c.ws # 0 /\ c.sock[c.ws] = "OPEN"

\* connect(): new WebSocket(url), stored in this.ws with its four handlers
WsConnect(c) ==
    IF AlreadyOpen(c) THEN c
    ELSE [c EXCEPT !.sock = Append(@, "CONNECTING"), !.ws = Len(c.sock) + 1]

\* WebSocket.close(): starts the closing handshake of a socket that is
\* connecting or open, and does nothing otherwise
SocketClose(state) ==
    IF state \in {"CONNECTING", "OPEN"} THEN "CLOSING" ELSE state

\* a disconnect() that runs the close handlers itself
WsDisconnectNotifying(c) ==
    [c EXCEPT !.shouldReconnect = FALSE,
              !.sock = IF c.ws # 0
                       THEN [@ EXCEPT ![c.ws] = SocketClose(@)]
                       ELSE @,
              !.ws = 0,
              !.notified = @ + 1]

\* disconnect()
WsDisconnect(c) ==
    [c EXCEPT !.shouldReconnect = FALSE,
              !.sock = IF c.ws # 0
                       THEN [@ EXCEPT ![c.ws] = SocketClose(@)]
                       ELSE @,
              !.ws = 0]

\* a send() that does not look at readyState
WsSendUnguarded(c) == [c EXCEPT !.sent = @ + 1]

\* send(data)
WsSend(c) == IF AlreadyOpen(c) THEN [c EXCEPT !.sent = @ + 1] ELSE c

\* an onmessage that emits whatever arrives
WsOnMessageUnparsed(c, parses) ==
    [c EXCEPT !.frames = Append(@, parses),
              !.delivered = Append(@, Len(c.frames) + 1)]

\* onmessage: JSON.parse, then emit; a frame that does not parse is logged
WsOnMessage(c, parses) ==
    [c EXCEPT !.frames = Append(@, parses),
              !.delivered = IF parses THEN Append(@, Len(c.frames) + 1) ELSE @]

\* an onopen that leaves the attempt counter alone
WsOnOpenKeepsCount(c, i) == [c EXCEPT !.sock[i] = "OPEN", !.closes = 0]

\* onopen of the i-th socket
WsOnOpen(c, i) ==
    [c EXCEPT !.sock[i] = "OPEN", !.reconnectCount = 0, !.closes = 0]

\* onclose: the condition under which a reconnect is scheduled
AttemptsRemainInclusive(c) ==
    c.shouldReconnect /\ c.reconnectCount <= RECONNECT_ATTEMPTS

AttemptsRemain(c) ==
    c.shouldReconnect /\ c.reconnectCount < RECONNECT_ATTEMPTS

\* onclose: the delay of the reconnect timer
ReconnectDelayDoubling(c) == (2 ^ c.reconnectCount) * RECONNECT_DELAY

ReconnectDelay(c) == RECONNECT_DELAY

\* onclose of the i-th socket
WsOnClose(c, i) ==
    LET d == [c EXCEPT !.sock[i] = "CLOSED",
                       !.closes = IF c.shouldReconnect THEN @ + 1 ELSE @] IN
    IF AttemptsRemain(d)
    THEN [d EXCEPT !.reconnectCount = @ + 1,
                   !.timers = Append(@, ReconnectDelay(d))]
    ELSE [d EXCEPT !.notified = @ + 1]

\* the callback of the oldest reconnect timer: () => this.connect()
WsTimerFired(c) == WsConnect([c EXCEPT !.timers = Tail(@)])

\* connect() would have to create a socket beyond the bound of the model
AtSocketBound(c) == ~AlreadyOpen(c) /\ Len(c.sock) >= MaxSockets

WsInit == wsClient = NewWsClient

\* the caller calls connect()
WsApiConnect ==
    /\ ~AtSocketBound(wsClient)
    /\ wsClient' = [WsConnect(wsClient) EXCEPT !.userClosed = FALSE]
    /\ UNCHANGED <<httpVars, panelVars>>

\* the caller calls disconnect()
WsApiDisconnect ==
    /\ wsClient' = [WsDisconnect(wsClient) EXCEPT !.userClosed = TRUE]
    /\ UNCHANGED <<httpVars, panelVars>>

\* the open event of a connecting socket
WsSocketOpened(i) ==
    /\ i \in 1..Len(wsClient.sock)
    /\ wsClient.sock[i] = "CONNECTING"
    /\ wsClient' = WsOnOpen(wsClient, i)
    /\ UNCHANGED <<httpVars, panelVars>>

\* the close event of a socket: the connection failed, the peer or the
\* network closed it, or the closing handshake started by close() ended
WsSocketClosed(i) ==
    /\ i \in 1..Len(wsClient.sock)
    /\ wsClient.sock[i] # "CLOSED"
    /\ wsClient' = WsOnClose(wsClient, i)
    /\ UNCHANGED <<httpVars, panelVars>>

\* a reconnect timer fires
WsReconnectTimer ==
    /\ wsClient.timers # <<>>
    /\ ~AtSocketBound(wsClient)
    /\ wsClient' = WsTimerFired(wsClient)
    /\ UNCHANGED <<httpVars, panelVars>>

\* the caller calls send()
WsApiSend ==
    /\ wsClient.sent < MaxFrames
    /\ wsClient' = WsSend(wsClient)
    /\ UNCHANGED <<httpVars, panelVars>>

\* a frame arrives on an open socket of the client
WsFrameArrived(i, parses) ==
    /\ i \in 1..Len(wsClient.sock)
    /\ wsClient.sock[i] = "OPEN"
    /\ Len(wsClient.frames) < MaxInbound
    /\ wsClient' = WsOnMessage(wsClient, parses)
    /\ UNCHANGED <<httpVars, panelVars>>

WsNext ==
    \/ WsApiConnect
    \/ WsApiDisconnect
    \/ WsApiSend
    \/ \E i \in 1..MaxSockets : WsSocketOpened(i)
    \/ \E i \in 1..MaxSockets : WsSocketClosed(i)
    \/ WsReconnectTimer

(***************************************************************************)
(* ChatPanel                                                               *)
(*                                                                         *)
(* cp holds the React state of the component (wsStatus, isLiveMode,        *)
(* liveStatus, licenseId, streamingUrl, voiceMode, isRecording), its refs, *)
(* and the recording sessions it has started: rec[k] is the k-th           *)
(* microphone acquisition, with the MediaStream and MediaRecorder it led   *)
(* to.  A render follows every handler; the refs that mirror state         *)
(* (voiceModeRef, isLiveModeRef, wsStatusRef, licenseIdRef) are read       *)
(* from the state they mirror.  The turn list (messages) is not carried.   *)
(***************************************************************************)
NewPanel ==
    [wsStatus             |-> "disconnected",
     isLiveMode           |-> FALSE,
     liveStatus           |-> "idle",
     licenseId            |-> 0,       \* 0 = "", k > 0 = the k-th license
     streamingUrl         |-> FALSE,   \* a streaming address is held
     voiceMode            |-> "record",
     isRecording          |-> FALSE,
     isPushToTalkRef      |-> FALSE,
     mediaRecorderRef     |-> 0,       \* 0 = null, k > 0 = recorder of rec[k]
     mediaStreamRef       |-> 0,       \* 0 = null, k > 0 = stream of rec[k]
     recordingModeRef     |-> "null",
     skipSendRef          |-> FALSE,
     pttTimerRef          |-> FALSE,   \* the hold timer is pending
     pttSeen              |-> [wsStatus |-> "disconnected", isLiveMode |-> FALSE,
                               licenseId |-> 0, isRecording |-> FALSE],
                                       \* the state the hold timer's closure sees
     pttDidStartRef       |-> FALSE,
     vadRestartTimeoutRef |-> 0,       \* k > 0: the auto-restart timer set by
                                       \* the stop handler of rec[k] is pending
     vadCtxRef            |-> 0,       \* rec[k] whose analyser loop is running
     vadRafRef            |-> FALSE,   \* a frame callback of the loop is requested
     vadRafDue            |-> FALSE,   \* the requested frame has come
     vadSpeechDetectedRef |-> FALSE,
     vadLastVoiceTsRef    |-> 0,
     vadStartTsRef        |-> 0,
     clock                |-> 0,       \* Date.now() while an analyser runs,
                                       \* counted from Epoch at its set-up
     wsClientRef          |-> 0,       \* 0 = null, k > 0 = clients[k]
     rec                  |-> <<>>,
     startLivePending     |-> 0,       \* startLiveSession requests in flight
     stopLivePending      |-> 0,       \* handleStopLive awaiting endLiveSession
     stopLiveRejected     |-> FALSE,   \* a handleStopLive call ended rejected
     messages             |-> <<>>,
     historyPending       |-> 0,       \* getChatHistory requests in flight
     lastHistory          |-> <<>>,    \* page of the last successful load
     unmounted            |-> FALSE,   \* the unmount cleanup has run
     licenses             |-> 0]       \* licenses issued by the service

\* the state a closure created by the current render reads
Seen(p) ==
    [wsStatus |-> p.wsStatus, isLiveMode |-> p.isLiveMode,
     licenseId |-> p.licenseId, isRecording |-> p.isRecording]

cancelVadRestart(p) == [p EXCEPT !.vadRestartTimeoutRef = 0]

\* stopVad: cancels the restart timer and the analyser loop, releases the
\* analyser and the AudioContext
stopVad(p) ==
    [cancelVadRestart(p) EXCEPT !.vadCtxRef = 0,
                                !.vadRafRef = FALSE,
                                !.vadRafDue = FALSE,
                                !.vadSpeechDetectedRef = FALSE,
                                !.vadLastVoiceTsRef = 0,
                                !.vadStartTsRef = 0,
                                !.clock = 0]

\* mediaStreamRef.current?.getTracks().forEach(t => t.stop());
\* mediaStreamRef.current = null
StopTracks(p) ==
    [p EXCEPT !.rec = IF p.mediaStreamRef # 0
                      THEN [@ EXCEPT ![p.mediaStreamRef].streamLive = FALSE]
                      ELSE @,
              !.mediaStreamRef = 0]

RecordingMode(useVad, isPushToTalk) ==
    IF useVad THEN "vad" ELSE IF isPushToTalk THEN "pushToTalk" ELSE "record"

\* startRecording: the three early returns, on the state the closure sees
StartRecordingAllowed(seen) ==
    /\ seen.wsStatus = "connected"
    /\ seen.isLiveMode
    /\ seen.licenseId # 0
    /\ ~seen.isRecording

\* startRecording up to the await of getUserMedia
startRecording(p, seen, useVad, isPushToTalk) ==
    IF ~StartRecordingAllowed(seen) THEN p
    ELSE [p EXCEPT
            !.isPushToTalkRef = isPushToTalk,
            !.recordingModeRef = RecordingMode(useVad, isPushToTalk),
            !.skipSendRef = FALSE,
            !.rec = Append(@, [phase       |-> "acquiring",
                               useVad      |-> useVad,
                               seen        |-> seen,
                               streamLive  |-> FALSE,
                               stopSend    |-> FALSE,  \* stopped with send requested
                               transmitted |-> FALSE,
                               voiceSent   |-> FALSE])]  \* "Voice sent" posted

\* stopRecording
stopRecording(p, send) ==
    LET r == p.mediaRecorderRef IN
    IF r = 0 \/ p.rec[r].phase # "recording" THEN p
    ELSE [stopVad([p EXCEPT !.skipSendRef = ~send])
            EXCEPT !.rec[r].phase = "stopping",
                   !.rec[r].stopSend = send]

\* the effect on [voiceMode, isLiveMode, wsStatus, licenseId, isRecording]
VadEffect(p) ==
    LET q == IF p.voiceMode # "vad" THEN cancelVadRestart(p) ELSE p IN
    IF /\ q.voiceMode = "vad"
       /\ q.isLiveMode
       /\ q.wsStatus = "connected"
       /\ q.licenseId # 0
       /\ ~q.isRecording
    THEN startRecording(q, Seen(q), TRUE, FALSE)
    ELSE IF q.voiceMode # "vad" /\ q.isRecording /\ q.recordingModeRef = "vad"
    THEN stopRecording(cancelVadRestart(q), FALSE)
    ELSE q

EffectDeps(p) ==
    <<p.voiceMode, p.isLiveMode, p.wsStatus, p.licenseId, p.isRecording>>

\* the render that follows a handler that took the component from p to q:
\* the effect runs when one of its dependencies has changed; an unmounted
\* component renders no more
Render(p, q) ==
    IF ~q.unmounted /\ EffectDeps(p) # EffectDeps(q) THEN VadEffect(q) ELSE q

\* handleStopLive up to the await of endLiveSession; licenseId is the one
\* the closure sees
StopLiveFinallyKeepsPhase(p) ==
    [p EXCEPT !.licenseId = 0, !.streamingUrl = FALSE, !.isLiveMode = FALSE]

StopLiveFinally(p) ==
    [p EXCEPT !.licenseId = 0, !.streamingUrl = FALSE, !.isLiveMode = FALSE,
              !.liveStatus = "idle"]

handleStopLive(p, licenseId) ==
    LET r  == p.mediaRecorderRef
        p1 == [p EXCEPT !.liveStatus = "stopping"]
        p2 == IF r # 0 /\ p1.rec[r].phase = "recording"
              THEN [cancelVadRestart(p1) EXCEPT !.skipSendRef = TRUE,
                                               !.rec[r].phase = "stopping"]
              ELSE p1
        p3 == [StopTracks(p2) EXCEPT !.mediaRecorderRef = 0,
                                     !.isRecording = FALSE] IN
    IF licenseId # 0
    THEN [p3 EXCEPT !.stopLivePending = @ + 1]
    ELSE StopLiveFinally(p3)

\* the finally block of recorder.onstop
OnStopFinally(p, k, didSend) ==
    LET p1 == [StopTracks([stopVad(p) EXCEPT !.isPushToTalkRef = FALSE])
                 EXCEPT !.mediaRecorderRef = 0,
                        !.isRecording = FALSE,
                        !.rec[k].phase = "done"] IN
    IF /\ didSend
       /\ p1.recordingModeRef = "vad"
       /\ p1.voiceMode = "vad"
       /\ p1.isLiveMode
       /\ p1.wsStatus = "connected"
       /\ p1.licenseId # 0
    THEN [p1 EXCEPT !.vadRestartTimeoutRef = k]
    ELSE p1

\* the instants of a hold at which the pointer or the hold timer may act
HoldInstants == {0, 150, 200, 250}

NoHold ==
    [down       |-> FALSE,
     heldMs     |-> 0,      \* time since the pointer went down
     releasedAt |-> -1,     \* heldMs at the release; -1 while not released
     starts     |-> 0,      \* startRecording calls made by this hold
     stops      |-> 0,      \* recordings this hold's release stopped, to send
     session    |-> 0]      \* rec[k] started by this hold

PanelInit ==
    /\ cp = NewPanel
    /\ clients = <<>>
    /\ ptt = NoHold

\* the voice controls are rendered
VoiceControlsShown == cp.isLiveMode /\ cp.licenseId # 0

WithinBounds == Len(cp'.rec) <= MaxRec

\* the connect / disconnect button
HandleConnect ==
    /\ IF cp.wsStatus = "connected"
       THEN LET p1 == [cp EXCEPT !.wsClientRef = 0, !.wsStatus = "disconnected"]
                p2 == IF cp.licenseId # 0
                      THEN handleStopLive(p1, cp.licenseId) ELSE p1 IN
            /\ clients' = IF cp.wsClientRef # 0
                          THEN [clients EXCEPT ![cp.wsClientRef].ws = WsDisconnect(@)]
                          ELSE clients
            /\ cp' = Render(cp, p2)
       ELSE /\ Len(clients) < MaxClients
            /\ clients' = Append(clients,
                                 [ws        |-> WsConnect(NewWsClient),
                                  licenseId |-> cp.licenseId])
            /\ cp' = Render(cp, [cp EXCEPT !.wsStatus = "connecting",
                                           !.wsClientRef = Len(clients) + 1])
    /\ WithinBounds
    /\ UNCHANGED <<httpVars, wsVars, ptt>>

\* the open event of a socket of clients[k]: onopen emits "connection" and
\* the message handler of the panel sets the status
PanelSocketOpened(k, i) ==
    /\ k \in 1..Len(clients)
    /\ i \in 1..Len(clients[k].ws.sock)
    /\ clients[k].ws.sock[i] = "CONNECTING"
    /\ clients' = [clients EXCEPT ![k].ws = WsOnOpen(@, i)]
    /\ cp' = Render(cp, [cp EXCEPT !.wsStatus = "connected"])
    /\ WithinBounds
    /\ UNCHANGED <<httpVars, wsVars, ptt>>

\* the close event of a socket of clients[k]; the close handler of the
\* panel runs when the client notifies its close subscribers
PanelSocketClosed(k, i) ==
    /\ k \in 1..Len(clients)
    /\ i \in 1..Len(clients[k].ws.sock)
    /\ clients[k].ws.sock[i] # "CLOSED"
    /\ LET c == WsOnClose(clients[k].ws, i) IN
       /\ clients' = [clients EXCEPT ![k].ws = c]
       /\ IF c.notified > clients[k].ws.notified
          THEN LET p1 == [cp EXCEPT !.wsStatus = "disconnected"]
                   p2 == IF clients[k].licenseId # 0
                         THEN handleStopLive(p1, clients[k].licenseId)
                         ELSE p1 IN
               cp' = Render(cp, p2)
          ELSE cp' = cp
    /\ WithinBounds
    /\ UNCHANGED <<httpVars, wsVars, ptt>>

\* the error event of a socket of clients[k]
PanelSocketError(k, i) ==
    /\ k \in 1..Len(clients)
    /\ i \in 1..Len(clients[k].ws.sock)
    /\ clients[k].ws.sock[i] \in {"CONNECTING", "OPEN"}
    /\ cp' = Render(cp, [cp EXCEPT !.wsStatus = "error"])
    /\ WithinBounds
    /\ UNCHANGED <<httpVars, wsVars, clients, ptt>>

\* a reconnect timer of clients[k] fires
PanelReconnectTimer(k) ==
    /\ k \in 1..Len(clients)
    /\ clients[k].ws.timers # <<>>
    /\ ~AtSocketBound(clients[k].ws)
    /\ clients' = [clients EXCEPT ![k].ws = WsTimerFired(@)]
    /\ UNCHANGED <<httpVars, wsVars, cp, ptt>>

\* the Start Live button
HandleStartLive ==
    /\ ~cp.isLiveMode
    /\ cp.liveStatus # "starting"
    /\ cp.wsStatus = "connected"
    /\ ~(cp.isLiveMode /\ cp.licenseId # 0)
    /\ cp.licenses + cp.startLivePending < MaxLive
    /\ cp' = [cp EXCEPT !.liveStatus = "starting", !.startLivePending = @ + 1]
    /\ UNCHANGED <<httpVars, wsVars, clients, ptt>>

\* startLiveSession resolves, with or without a streaming address
StartLiveResolved(url) ==
    /\ cp.startLivePending > 0
    /\ cp' = Render(cp, [cp EXCEPT !.startLivePending = @ - 1,
                                   !.licenses = @ + 1,
                                   !.licenseId = cp.licenses + 1,
                                   !.streamingUrl = url,
                                   !.isLiveMode = TRUE,
                                   !.liveStatus = "live"])
    /\ WithinBounds
    /\ UNCHANGED <<httpVars, wsVars, clients, ptt>>

\* startLiveSession rejects
StartLiveRejected ==
    /\ cp.startLivePending > 0
    /\ cp' = [cp EXCEPT !.startLivePending = @ - 1, !.liveStatus = "error"]
    /\ UNCHANGED <<httpVars, wsVars, clients, ptt>>

\* the Stop Live button
HandleStopLive ==
    /\ cp.isLiveMode
    /\ cp.liveStatus # "stopping"
    /\ cp.licenseId # 0
    /\ cp' = Render(cp, handleStopLive(cp, cp.licenseId))
    /\ WithinBounds
    /\ UNCHANGED <<httpVars, wsVars, clients, ptt>>

\* what fetch() does with a request: a 2xx response, another response, or
\* no response (the network fails)
FetchOutcomes == {"ok", "status", "network"}

\* RavatarApi.endLiveSession: awaits fetch() and does not look at the response
endLiveSession(outcome) ==
    IF outcome = "network" THEN "rejected" ELSE "resolved"

\* endLiveSession settles: the finally block of handleStopLive, after which
\* the promise of handleStopLive settles as endLiveSession did
EndLiveSettled(outcome) ==
    /\ cp.stopLivePending > 0
    /\ cp' = Render(cp, StopLiveFinally(
                 [cp EXCEPT !.stopLivePending = @ - 1,
                            !.stopLiveRejected =
                                @ \/ endLiveSession(outcome) = "rejected"]))
    /\ WithinBounds
    /\ UNCHANGED <<httpVars, wsVars, clients, ptt>>

\* a radio button of the voice controls
ChangeVoiceMode(m) ==
    /\ VoiceControlsShown
    /\ ~ptt.down
    /\ m # cp.voiceMode
    /\ cp' = Render(cp, [cp EXCEPT !.voiceMode = m])
    /\ WithinBounds
    /\ UNCHANGED <<httpVars, wsVars, clients, ptt>>

\* the Start Recording button
StartRecordingClick ==
    /\ VoiceControlsShown
    /\ cp.voiceMode = "record"
    /\ ~cp.isRecording
    /\ cp.wsStatus = "connected"
    /\ cp' = startRecording(cp, Seen(cp), FALSE, FALSE)
    /\ WithinBounds
    /\ UNCHANGED <<httpVars, wsVars, clients, ptt>>

\* the Stop Recording button
StopRecordingClick ==
    /\ VoiceControlsShown
    /\ cp.voiceMode = "record"
    /\ cp.isRecording
    /\ cp' = stopRecording(cp, TRUE)
    /\ UNCHANGED <<httpVars, wsVars, clients, ptt>>

\* pointer down on the push-to-talk button: startPushToTalk
PointerDown ==
    /\ VoiceControlsShown
    /\ cp.voiceMode = "pushToTalk"
    /\ cp.wsStatus = "connected"
    /\ ~ptt.down
    /\ cp' = IF cp.isRecording THEN cp
             ELSE [cancelVadRestart(cp) EXCEPT !.pttDidStartRef = FALSE,
                                               !.pttTimerRef = TRUE,
                                               !.pttSeen = Seen(cp)]
    /\ ptt' = [NoHold EXCEPT !.down = TRUE]
    /\ UNCHANGED <<httpVars, wsVars, clients>>

\* time passes while the pointer is down; the hold timer fires when due
HoldTimePasses ==
    /\ ptt.down
    /\ ~(cp.pttTimerRef /\ ptt.heldMs >= MIN_PTT_HOLD_MS)
    /\ \E t \in HoldInstants :
          /\ t > ptt.heldMs
          /\ \A u \in HoldInstants : u > ptt.heldMs => t <= u
          /\ ptt' = [ptt EXCEPT !.heldMs = t]
    /\ UNCHANGED <<httpVars, wsVars, cp, clients>>

\* the hold timer fires
PttTimerFired ==
    /\ cp.pttTimerRef
    /\ ptt.heldMs >= MIN_PTT_HOLD_MS
    /\ cp' = startRecording([cp EXCEPT !.pttTimerRef = FALSE,
                                       !.pttDidStartRef = TRUE],
                            cp.pttSeen, FALSE, TRUE)
    /\ ptt' = [ptt EXCEPT !.starts = @ + 1,
                          !.session = IF Len(cp'.rec) > Len(cp.rec)
                                      THEN Len(cp'.rec) ELSE @]
    /\ WithinBounds
    /\ UNCHANGED <<httpVars, wsVars, clients>>

\* endPushToTalk
endPushToTalk(p) ==
    IF p.pttTimerRef
    THEN [p EXCEPT !.pttTimerRef = FALSE, !.pttDidStartRef = FALSE]
    ELSE [(IF p.pttDidStartRef /\ p.isRecording
           THEN stopRecording(p, TRUE) ELSE p)
            EXCEPT !.pttDidStartRef = FALSE]

\* pointer up or pointer cancel on the push-to-talk button
PointerUp ==
    /\ ptt.down
    /\ cp' = IF VoiceControlsShown /\ cp.voiceMode = "pushToTalk"
             THEN endPushToTalk(cp) ELSE cp
    /\ ptt' = [ptt EXCEPT
                 !.down = FALSE,
                 !.releasedAt = ptt.heldMs,
                 !.stops = Cardinality({k \in 1..Len(cp.rec) :
                                          /\ cp.rec[k].phase = "recording"
                                          /\ cp'.rec[k].phase = "stopping"
                                          /\ cp'.rec[k].stopSend})]
    /\ UNCHANGED <<httpVars, wsVars, clients>>

\* the analyser of rec[k] is set up and its first frame is requested
vadSetup(p, k) ==
    [p EXCEPT !.vadCtxRef = k,
              !.vadSpeechDetectedRef = FALSE,
              !.vadLastVoiceTsRef = 0,
              !.clock = Epoch,
              !.vadStartTsRef = Epoch,
              !.vadRafRef = TRUE]

\* getUserMedia resolves for rec[k]: the stream is stored, the analyser is
\* set up for a VAD recording, the recorder is created and started
GetUserMediaResolved(k) ==
    /\ k \in 1..Len(cp.rec)
    /\ cp.rec[k].phase = "acquiring"
    /\ LET p1 == stopVad([cp EXCEPT !.mediaStreamRef = k,
                                    !.rec[k].streamLive = TRUE])
           p2 == IF cp.rec[k].useVad THEN vadSetup(p1, k) ELSE p1
           p3 == [p2 EXCEPT !.mediaRecorderRef = k,
                            !.rec[k].phase = "recording",
                            !.isRecording = TRUE] IN
       cp' = Render(cp, p3)
    /\ WithinBounds
    /\ UNCHANGED <<httpVars, wsVars, clients, ptt>>

\* getUserMedia resolves for rec[k] and the MediaRecorder constructor throws:
\* the stream is stored and the analyser of a VAD recording set up, then the
\* catch block posts the microphone error
RecorderSetupFailed(k) ==
    /\ k \in 1..Len(cp.rec)
    /\ cp.rec[k].phase = "acquiring"
    /\ LET p1 == stopVad([cp EXCEPT !.mediaStreamRef = k,
                                    !.rec[k].streamLive = TRUE])
           p2 == IF cp.rec[k].useVad THEN vadSetup(p1, k) ELSE p1 IN
       cp' = [p2 EXCEPT !.rec[k].phase = "failed"]
    /\ UNCHANGED <<httpVars, wsVars, clients, ptt>>

\* getUserMedia rejects for rec[k]
GetUserMediaRejected(k) ==
    /\ k \in 1..Len(cp.rec)
    /\ cp.rec[k].phase = "acquiring"
    /\ cp' = [cp EXCEPT !.rec[k].phase = "failed"]
    /\ UNCHANGED <<httpVars, wsVars, clients, ptt>>

\* tick: stopRecording(); return -- no further frame is requested
tickStop(p) == [stopRecording(p, TRUE) EXCEPT !.vadRafRef = FALSE,
                                              !.vadRafDue = FALSE]

\* tick: the silence window has passed since the last loud sample
SilenceElapsedStrict(last, now) == last # 0 /\ now - last > VAD_SILENCE_MS

SilenceElapsed(last, now) == last # 0 /\ now - last >= VAD_SILENCE_MS

\* tick: the ceiling has passed since the analyser was set up
CeilingReachedStrict(started, now) ==
    started # 0 /\ now - started > VAD_MAX_MS

CeilingReached(started, now) == started # 0 /\ now - started >= VAD_MAX_MS

\* tick, on a sample that is at or above VAD_SPEECH_THRESHOLD (loud) or
\* below it, read at Date.now() = p.clock
tick(p, loud) ==
    LET now == p.clock
        p1  == IF loud THEN [p EXCEPT !.vadSpeechDetectedRef = TRUE,
                                      !.vadLastVoiceTsRef = now]
               ELSE p IN
    IF p1.vadCtxRef = 0 THEN [p EXCEPT !.vadRafRef = FALSE, !.vadRafDue = FALSE]
    ELSE IF /\ p1.vadSpeechDetectedRef
            /\ SilenceElapsed(p1.vadLastVoiceTsRef, now)
    THEN tickStop(p1)
    ELSE IF CeilingReached(p1.vadStartTsRef, now)
    THEN tickStop(p1)
    ELSE [p1 EXCEPT !.vadRafDue = FALSE]

\* time passes until the frame that the analyser loop has requested
FrameElapses(dt) ==
    /\ cp.vadRafRef
    /\ ~cp.vadRafDue
    /\ cp' = [cp EXCEPT !.clock = @ + dt, !.vadRafDue = TRUE]
    /\ UNCHANGED <<httpVars, wsVars, clients, ptt>>

\* the frame callback of the analyser loop
VadTick(loud) ==
    /\ cp.vadRafDue
    /\ cp' = tick(cp, loud)
    /\ UNCHANGED <<httpVars, wsVars, clients, ptt>>

\* the analyser loop of rec[k] finds the silence window or the ceiling
\* reached and calls stopRecording()
VadTickStops(k) ==
    /\ k \in 1..Len(cp.rec)
    /\ cp.vadCtxRef = k
    /\ cp.vadRafRef
    /\ cp' = tickStop(cp)
    /\ UNCHANGED <<httpVars, wsVars, clients, ptt>>

\* recorder.onstop of rec[k], up to the await of blobToBase64 when the
\* audio is to be sent, to its end otherwise
RecorderStopped(k) ==
    /\ k \in 1..Len(cp.rec)
    /\ cp.rec[k].phase = "stopping"
    /\ LET p1 == [cp EXCEPT !.skipSendRef = FALSE] IN
       cp' = IF cp.skipSendRef
             THEN Render(cp, OnStopFinally(p1, k, FALSE))
             ELSE [p1 EXCEPT !.rec[k].phase = "encoding"]
    /\ WithinBounds
    /\ UNCHANGED <<httpVars, wsVars, clients, ptt>>

\* send(): the frame is transmitted when the socket of the client is open
Transmits(ref) == ref # 0 /\ AlreadyOpen(clients[ref].ws)

\* blobToBase64 resolves for rec[k]: the voice frame is handed to the
\* client, then the finally block runs
VoiceEncoded(k) ==
    /\ k \in 1..Len(cp.rec)
    /\ cp.rec[k].phase = "encoding"
    /\ cp' = Render(cp, OnStopFinally(
                 [cp EXCEPT !.rec[k].transmitted = Transmits(cp.wsClientRef),
                            !.rec[k].voiceSent = TRUE],
                 k, TRUE))
    /\ WithinBounds
    /\ UNCHANGED <<httpVars, wsVars, clients, ptt>>

\* blobToBase64 rejects for rec[k]: the catch block, then the finally block
VoiceEncodeFailed(k) ==
    /\ k \in 1..Len(cp.rec)
    /\ cp.rec[k].phase = "encoding"
    /\ cp' = Render(cp, OnStopFinally(cp, k, TRUE))
    /\ WithinBounds
    /\ UNCHANGED <<httpVars, wsVars, clients, ptt>>

\* the auto-restart timer fires
VadRestartTimer ==
    /\ cp.vadRestartTimeoutRef # 0
    /\ LET k  == cp.vadRestartTimeoutRef
           p1 == [cp EXCEPT !.vadRestartTimeoutRef = 0] IN
       cp' = IF \/ p1.voiceMode # "vad"
                \/ ~p1.isLiveMode
                \/ p1.wsStatus # "connected"
                \/ p1.licenseId = 0
             THEN p1
             ELSE startRecording(p1, cp.rec[k].seen, TRUE, FALSE)
    /\ WithinBounds
    /\ UNCHANGED <<httpVars, wsVars, clients, ptt>>

\* the cleanup of the mount effect.  The refs that mirror state keep the
\* values of the last render; the request of endLiveSession it fires is not
\* awaited and has no continuation.
Unmount ==
    /\ ~cp.unmounted
    /\ clients' = IF cp.wsClientRef # 0
                  THEN [clients EXCEPT ![cp.wsClientRef].ws = WsDisconnect(@)]
                  ELSE clients
    /\ LET r  == cp.mediaRecorderRef
           p1 == stopVad(cancelVadRestart(cp))
           p2 == IF r # 0 /\ p1.rec[r].phase = "recording"
                 THEN [p1 EXCEPT !.skipSendRef = TRUE,
                                 !.rec[r].phase = "stopping"]
                 ELSE p1 IN
       cp' = [StopTracks(p2) EXCEPT !.mediaRecorderRef = 0,
                                    !.unmounted = TRUE]
    /\ UNCHANGED <<httpVars, wsVars, ptt>>

\* the voice path of the panel on one connection: connecting, going live,
\* disconnecting, and every handler, timer and callback that starts or stops
\* a recording
VoiceNext ==
    \/ (clients = <<>> /\ HandleConnect)
    \/ (cp.wsStatus = "connected" /\ HandleConnect)
    \/ \E k \in 1..MaxClients, i \in 1..MaxSockets : PanelSocketOpened(k, i)
    \/ HandleStartLive
    \/ \E url \in BOOLEAN : StartLiveResolved(url)
    \/ StartLiveRejected
    \/ \E m \in {"record", "pushToTalk", "vad"} : ChangeVoiceMode(m)
    \/ StartRecordingClick
    \/ StopRecordingClick
    \/ PointerDown
    \/ HoldTimePasses
    \/ PttTimerFired
    \/ PointerUp
    \/ \E k \in 1..MaxRec : GetUserMediaResolved(k)
    \/ \E k \in 1..MaxRec : GetUserMediaRejected(k)
    \/ \E k \in 1..MaxRec : VadTickStops(k)
    \/ \E k \in 1..MaxRec : RecorderStopped(k)
    \/ \E k \in 1..MaxRec : VoiceEncoded(k)
    \/ \E k \in 1..MaxRec : VoiceEncodeFailed(k)
    \/ VadRestartTimer

PanelNext ==
    \/ VoiceNext
    \/ \E k \in 1..MaxClients, i \in 1..MaxSockets : PanelSocketClosed(k, i)
    \/ \E k \in 1..MaxClients, i \in 1..MaxSockets : PanelSocketError(k, i)
    \/ \E k \in 1..MaxClients : PanelReconnectTimer(k)
    \/ HandleStopLive
    \/ \E o \in FetchOutcomes : EndLiveSettled(o)

Init == HttpInit /\ WsInit /\ PanelInit

SpecHttp == Init /\ [][HttpNext]_vars

\* calls answered by success or 503, with the timeout of each attempt
HttpTimeoutNext ==
    \/ \E c \in Calls : HttpStart(c)
    \/ \E c \in Calls, s \in {OK_STATUS, 503} : HttpRespond(c, s, "json")
    \/ \E c \in Calls : HttpTimeout(c)
    \/ \E c \in Calls : HttpFetchFail(c)
    \/ \E c \in Calls : HttpBackoffElapsed(c)

SpecHttpTimeout == Init /\ [][HttpTimeoutNext]_vars

SpecWs == Init /\ [][WsNext]_vars

\* the socket client with its inbound traffic
WsInboundNext ==
    \/ WsApiConnect
    \/ WsApiDisconnect
    \/ \E i \in 1..MaxSockets : WsSocketOpened(i)
    \/ \E i \in 1..MaxSockets : WsSocketClosed(i)
    \/ WsReconnectTimer
    \/ \E i \in 1..MaxSockets, parses \in BOOLEAN : WsFrameArrived(i, parses)

SpecWsInbound == Init /\ [][WsInboundNext]_vars

SpecVoice == Init /\ [][VoiceNext]_vars

SpecPanel == Init /\ [][PanelNext]_vars

\* the live session of the panel: connecting and disconnecting, starting and
\* stopping live, with one manual recording for a live-stop to cancel
LiveNext ==
    \/ HandleConnect
    \/ \E k \in 1..MaxClients, i \in 1..MaxSockets : PanelSocketOpened(k, i)
    \/ HandleStartLive
    \/ \E url \in BOOLEAN : StartLiveResolved(url)
    \/ StartLiveRejected
    \/ HandleStopLive
    \/ \E o \in FetchOutcomes : EndLiveSettled(o)
    \/ (cp.rec = <<>> /\ StartRecordingClick)
    \/ GetUserMediaResolved(1)
    \/ RecorderStopped(1)

SpecLive == Init /\ [][LiveNext]_vars

\* the same, with the scheduling the code can count on: the stop event of a
\* stopped recorder is dispatched.  Nothing bounds the time of a fetch():
\* endLiveSession and startLiveSession set no timeout.
SpecLiveFair == SpecLive /\ WF_vars(RecorderStopped(1))

\* the VAD path of the panel with the time of its analyser loop, on one
\* connection that the user may close while an auto-restart is pending
VadNext ==
    \/ (clients = <<>> /\ HandleConnect)
    \/ (cp.wsStatus = "connected" /\ cp.vadRestartTimeoutRef # 0 /\ HandleConnect)
    \/ \E k \in 1..MaxClients, i \in 1..MaxSockets : PanelSocketOpened(k, i)
    \/ HandleStartLive
    \/ StartLiveResolved(TRUE)
    \/ \E m \in {"record", "vad"} : ChangeVoiceMode(m)
    \/ \E k \in 1..MaxRec : GetUserMediaResolved(k)
    \/ \E dt \in TickIntervals : FrameElapses(dt)
    \/ \E loud \in BOOLEAN : VadTick(loud)
    \/ \E k \in 1..MaxRec : RecorderStopped(k)
    \/ \E k \in 1..MaxRec : VoiceEncoded(k)
    \/ VadRestartTimer

SpecVad == Init /\ [][VadNext]_vars

(***************************************************************************)
(* ChatPanel: the message list                                             *)
(*                                                                         *)
(* messages is the React state rendered by MessageList.  It is written in  *)
(* four places only: loadChatHistory, the incoming branch of               *)
(* handleIncomingMessage, addSystemMessage and handleSend.  A turn is a    *)
(* record of its role, content and isHistory mark (an unset mark reads as  *)
(* FALSE); ids and timestamps are left out.  The notices the connection,   *)
(* live-session and voice handlers post through addSystemMessage are the   *)
(* step SystemNotice here; the actions of those handlers above leave the   *)
(* list alone.  historyPending counts getChatHistory requests in flight    *)
(* and lastHistory records the page the last successful load received.     *)
(***************************************************************************)
Directions == {"outgoing", "incoming", "none"}    \* "none": no direction
Dates == {1, 2}
\* ChatHistoryMessage; an absent answer and an empty one are both ""
HistoryItems ==
    [direction : Directions, request : {"", "hi"}, answer : {"", "hello"},
     date : Dates]

\* the pages getChatHistory may answer with
PageLengths == 0..2

Payloads == UNION {[1..n -> HistoryItems] : n \in PageLengths}

Turn(role, content, isHistory) ==
    [role |-> role, content |-> content, isHistory |-> isHistory]

\* a variant that maps the request of a record of either direction
mapHistoryItemAnyDirection(item) ==
    (IF item.request # ""
     THEN <<Turn("user", item.request, TRUE)>> ELSE <<>>)
    \o (IF (item.direction = "incoming" \/ item.direction = "none")
           /\ item.answer # ""
        THEN <<Turn("assistant", item.answer, TRUE)>> ELSE <<>>)

mapHistoryItemToUiMessages(item) ==
    (IF (item.direction = "outgoing" \/ item.direction = "none")
        /\ item.request # ""
     THEN <<Turn("user", item.request, TRUE)>> ELSE <<>>)
    \o (IF (item.direction = "incoming" \/ item.direction = "none")
           /\ item.answer # ""
        THEN <<Turn("assistant", item.answer, TRUE)>> ELSE <<>>)

\* [...payload].sort((a, b) => a.date - b.date): a stable sort
RECURSIVE insertByDate(_, _)
insertByDate(sorted, x) ==
    IF sorted = <<>> THEN <<x>>
    ELSE IF Head(sorted).date <= x.date
         THEN <<Head(sorted)>> \o insertByDate(Tail(sorted), x)
         ELSE <<x>> \o sorted

RECURSIVE sortByDate(_)
sortByDate(s) ==
    IF s = <<>> THEN <<>>
    ELSE insertByDate(sortByDate(SubSeq(s, 1, Len(s) - 1)), s[Len(s)])

\* sorted.flatMap(mapHistoryItemToUiMessages)
RECURSIVE flatMapHistory(_)
flatMapHistory(s) ==
    IF s = <<>> THEN <<>>
    ELSE mapHistoryItemToUiMessages(Head(s)) \o flatMapHistory(Tail(s))

addSystemMessage(p, content) ==
    [p EXCEPT !.messages = Append(@, Turn("system", content, FALSE))]

\* the turns of the list that did not come from a history page
LiveTurns(p) == SelectSeq(p.messages, LAMBDA t : ~t.isHistory)

RoomForTurn == Len(LiveTurns(cp)) < MaxTurns

\* the history effect: jwtToken changed to a token, loadChatHistory issues
\* its request
JwtTokenChanged ==
    /\ cp.historyPending < MaxLoads
    /\ cp' = [cp EXCEPT !.historyPending = @ + 1]
    /\ UNCHANGED <<httpVars, wsVars, clients, ptt>>

\* loadChatHistory after the await: the page replaces the list, then the
\* notice is appended
HistoryResolved(payload, has_more_messages) ==
    /\ cp.historyPending > 0
    /\ LET uiMessages == flatMapHistory(sortByDate(payload))
           p1 == [cp EXCEPT !.historyPending = @ - 1,
                            !.messages = uiMessages,
                            !.lastHistory = payload] IN
       cp' = addSystemMessage(p1, IF has_more_messages
                                  THEN "loadedMore" ELSE "loaded")
    /\ UNCHANGED <<httpVars, wsVars, clients, ptt>>

\* loadChatHistory: the request failed
HistoryRejected ==
    /\ cp.historyPending > 0
    /\ RoomForTurn
    /\ cp' = addSystemMessage([cp EXCEPT !.historyPending = @ - 1], "failed")
    /\ UNCHANGED <<httpVars, wsVars, clients, ptt>>

\* a handler posts a notice
SystemNotice ==
    /\ RoomForTurn
    /\ cp' = addSystemMessage(cp, "notice")
    /\ UNCHANGED <<httpVars, wsVars, clients, ptt>>

FrameKinds == {"system", "incoming", "event", "other"}

handleIncomingMessage(p, kind, text) ==
    IF text = "" THEN p
    ELSE IF kind = "incoming"
         THEN [p EXCEPT !.messages = Append(@, Turn("assistant", text, FALSE))]
         ELSE addSystemMessage(p, text)

\* a "message" frame arrives on the socket of the current client
IncomingFrame(kind, text) ==
    /\ cp.wsStatus = "connected"
    /\ RoomForTurn
    /\ cp' = handleIncomingMessage(cp, kind, text)
    /\ UNCHANGED <<httpVars, wsVars, clients, ptt>>

canSend(p, inputValue) == p.wsStatus = "connected" /\ inputValue # ""

handleSend(p, inputValue) ==
    IF ~canSend(p, inputValue) THEN p
    ELSE IF p.isLiveMode /\ p.licenseId = 0
         THEN addSystemMessage(p, "licenseRequired")
         ELSE [p EXCEPT !.messages = Append(@, Turn("user", inputValue, FALSE))]

HandleSend(inputValue) ==
    /\ RoomForTurn
    /\ cp' = handleSend(cp, inputValue)
    /\ UNCHANGED <<httpVars, wsVars, clients, ptt>>

\* one history load at a time, up to the first page that carries records
HistoryNext ==
    \/ (cp.historyPending = 0 /\ cp.lastHistory = <<>> /\ JwtTokenChanged)
    \/ \E payload \in Payloads, more \in BOOLEAN : HistoryResolved(payload, more)
    \/ HistoryRejected

SpecHistory == Init /\ [][HistoryNext]_vars

\* one history load at a time, up to the first page that carries records,
\* beside the live traffic of one connection
ChatNext ==
    \/ (cp.wsStatus = "disconnected" /\ HandleConnect)
    \/ \E k \in 1..MaxClients, i \in 1..MaxSockets : PanelSocketOpened(k, i)
    \/ (cp.historyPending = 0 /\ cp.lastHistory = <<>> /\ JwtTokenChanged)
    \/ \E payload \in Payloads, more \in BOOLEAN : HistoryResolved(payload, more)
    \/ HistoryRejected
    \/ SystemNotice
    \/ \E kind \in FrameKinds, text \in {"", "hello"} : IncomingFrame(kind, text)
    \/ \E inputValue \in {"", "hi"} : HandleSend(inputValue)

SpecChat == Init /\ [][ChatNext]_vars

\* a mounted panel in voice-activated mode on one connection, its unmount,
\* and the timers and callbacks that outlive it
TeardownNext ==
    \/ (~cp.unmounted /\ cp.wsStatus = "disconnected" /\ HandleConnect)
    \/ (~cp.unmounted /\ \E k \in 1..MaxClients, i \in 1..MaxSockets :
                            PanelSocketOpened(k, i))
    \/ (~cp.unmounted /\ \E k \in 1..MaxClients, i \in 1..MaxSockets :
                            PanelSocketClosed(k, i))
    \/ \E k \in 1..MaxClients : PanelReconnectTimer(k)
    \/ (~cp.unmounted /\ HandleStartLive)
    \/ StartLiveResolved(TRUE)
    \/ (~cp.unmounted /\ ChangeVoiceMode("vad"))
    \/ \E k \in 1..MaxRec : GetUserMediaResolved(k)
    \/ \E k \in 1..MaxRec : RecorderSetupFailed(k)
    \/ \E k \in 1..MaxRec : VadTickStops(k)
    \/ \E k \in 1..MaxRec : RecorderStopped(k)
    \/ \E k \in 1..MaxRec : VoiceEncoded(k)
    \/ VadRestartTimer
    \/ Unmount

SpecTeardown == Init /\ [][TeardownNext]_vars

\* the connection of the panel and one live session: the connect button in
\* every status, the events of the sockets and the reconnect timers of the
\* clients it has created
ConnNext ==
    \/ HandleConnect
    \/ \E k \in 1..MaxClients, i \in 1..MaxSockets : PanelSocketOpened(k, i)
    \/ \E k \in 1..MaxClients, i \in 1..MaxSockets : PanelSocketClosed(k, i)
    \/ \E k \in 1..MaxClients, i \in 1..MaxSockets : PanelSocketError(k, i)
    \/ \E k \in 1..MaxClients : PanelReconnectTimer(k)
    \/ (cp.licenses + cp.startLivePending = 0 /\ HandleStartLive)
    \/ StartLiveResolved(TRUE)
    \/ EndLiveSettled("ok")

SpecConn == Init /\ [][ConnNext]_vars

(***************************************************************************)
(* Properties of HttpClient                                                *)
(***************************************************************************)
ApiError(status) == [kind |-> "RavatarApiError", status |-> status]

\* C1: a call whose first k <= 3 responses are 503/504 and whose next response
\* is a success has issued exactly k + 1 requests, has waited 1000, 2000 and
\* 4000 ms (in that order) before the retries, and is resolved, within the
\* ceiling of 3 retries.
C1_RetriesThenSuccess ==
    \A c \in Calls :
        LET r == call[c] IN
        (/\ r.nResponses = r.nRetryable + 1
         /\ r.nRetryable <= 3
         /\ r.last = OK_STATUS
         /\ ~r.parseFailed)
        => /\ r.pc = "resolved"
           /\ r.requests = r.nRetryable + 1
           /\ r.delays = SubSeq(<<1000, 2000, 4000>>, 1, r.nRetryable)
           /\ r.retryCount = r.nRetryable
           /\ r.retryCount <= MAX_RETRY_ATTEMPTS

C1_Witness ==
    \E c \in Calls :
        /\ call[c].pc = "resolved"
        /\ call[c].nRetryable = 3
        /\ call[c].nResponses = 4
        /\ call[c].delays = <<1000, 2000, 4000>>

\* C2: a call whose first response is 403 goes through refreshToken() exactly
\* once; while the refresh is pending it has issued one request, after a
\* successful refresh it has issued exactly one replay, and when the replay is
\* answered 403 it is rejected with RavatarApiError(403) with no second
\* refresh; a refresh is never started for a call whose first response was
\* not 403.
C2_RefreshOnceReplayOnce ==
    /\ \A c \in Calls :
        LET r == call[c] IN
        /\ r.refreshes = (IF r.first403 THEN 1 ELSE 0)
        /\ r.pc = "awaitRefresh"
             => r.first403 /\ r.nResponses = 1 /\ r.requests = 1
        /\ (r.first403 /\ r.nResponses = 1 /\ r.pc = "fetching")
             => r.requests = 2 /\ r.retryCount = 1
        /\ (r.first403 /\ r.nResponses = 2 /\ r.last = AUTH_EXPIRED_STATUS_CODE)
             => /\ r.pc = "rejected"
                /\ r.err = ApiError(AUTH_EXPIRED_STATUS_CODE)
                /\ r.requests = 2
    /\ refreshJwtCalls <= Cardinality({c \in Calls : call[c].first403})

C2_Witness ==
    \E c \in Calls :
        /\ call[c].first403
        /\ call[c].nResponses = 2
        /\ call[c].last = AUTH_EXPIRED_STATUS_CODE
        /\ call[c].pc = "rejected"
        /\ jwtToken # 0

\* C3: at most one refreshJwt() call is in flight, and every call waiting for
\* a refresh waits for that one pending refresh.
C3_SingleRefreshInFlight ==
    /\ Cardinality(refreshInFlight) <= 1
    /\ refreshPromise # 0 <=> refreshInFlight = {refreshPromise}
    /\ \A c \in Calls :
          call[c].pc = "awaitRefresh"
            => call[c].awaiting = refreshPromise /\ refreshPromise \in refreshInFlight

C3_Witness ==
    \E c1, c2 \in Calls :
        /\ c1 # c2
        /\ call[c1].pc = "awaitRefresh"
        /\ call[c2].pc = "awaitRefresh"
        /\ refreshJwtCalls = 1

\* C4: a call all of whose responses are 503/504 issues at most 4 requests
\* (3 retries); the fourth such response rejects it with a RavatarApiError
\* carrying that status, and no request is issued afterwards.
C4_RetryCeiling ==
    \A c \in Calls :
        LET r == call[c] IN
        r.nRetryable = r.nResponses
        => /\ r.requests <= MAX_RETRY_ATTEMPTS + 1
           /\ Len(r.delays) <= MAX_RETRY_ATTEMPTS
           /\ r.nResponses = MAX_RETRY_ATTEMPTS + 1
                => /\ r.pc = "rejected"
                   /\ r.err = ApiError(r.last)
                   /\ r.last \in RETRYABLE_STATUS_CODES
                   /\ r.requests = MAX_RETRY_ATTEMPTS + 1

C4_Witness ==
    \E c \in Calls :
        /\ call[c].nRetryable = 4
        /\ call[c].nResponses = 4
        /\ call[c].pc = "rejected"
        /\ call[c].err = ApiError(504)

\* C5: once a call has received 402 it is rejected with RavatarApiError(402)
\* and nothing follows: no request after the 402, no backoff delay and no
\* refresh owed to it, whatever the retry count was.
C5_PaymentRequiredTerminal ==
    \A c \in Calls :
        LET r == call[c] IN
        r.last = PAYMENT_REQUIRED_STATUS_CODE
        => /\ r.pc = "rejected"
           /\ r.err = ApiError(PAYMENT_REQUIRED_STATUS_CODE)
           /\ r.requests = r.nResponses
           /\ Len(r.delays) = r.nRetryable
           /\ r.refreshes = (IF r.first403 THEN 1 ELSE 0)

C5_Witness ==
    \E c \in Calls :
        /\ call[c].last = PAYMENT_REQUIRED_STATUS_CODE
        /\ call[c].retryCount = MAX_RETRY_ATTEMPTS
        /\ call[c].first403

(***************************************************************************)
(* Properties of RavatarWsClient                                           *)
(***************************************************************************)
\* the WebSocket objects of the client that are connecting or open
LiveSockets(c) ==
    {i \in 1..Len(c.sock) : c.sock[i] \in {"CONNECTING", "OPEN"}}

\* C6: after disconnect() the client creates no WebSocket until the caller
\* calls connect() again: a step that leaves the client disconnected by the
\* caller creates no socket.
C6_NoSocketAfterDisconnect ==
    [][(wsClient.userClosed /\ wsClient'.userClosed)
         => Len(wsClient'.sock) = Len(wsClient.sock)]_vars

\* a step that is the close handler of an unexpected close
UnexpectedClose == wsClient'.closes = wsClient.closes + 1

\* C7 as claimed: an unexpected close before the reconnectAttempts-th
\* consecutive one schedules a reconnect after reconnectDelay; the
\* reconnectAttempts-th one schedules nothing and notifies the close
\* subscribers.
C7_AsClaimed ==
    [][UnexpectedClose =>
         IF wsClient'.closes < RECONNECT_ATTEMPTS
         THEN wsClient'.timers = Append(wsClient.timers, RECONNECT_DELAY)
         ELSE /\ wsClient'.timers = wsClient.timers
              /\ wsClient'.notified = wsClient.notified + 1]_vars

\* C7 (amended): each of the first reconnectAttempts consecutive unexpected
\* closes schedules one reconnect after reconnectDelay and notifies nobody;
\* every later consecutive unexpected close, the (reconnectAttempts + 1)-th
\* first, schedules nothing and notifies the close subscribers.
C7_ReconnectBudget ==
    [][UnexpectedClose =>
         IF wsClient'.closes <= RECONNECT_ATTEMPTS
         THEN /\ wsClient'.timers = Append(wsClient.timers, RECONNECT_DELAY)
              /\ wsClient'.notified = wsClient.notified
              /\ wsClient'.reconnectCount = wsClient'.closes
         ELSE /\ wsClient'.timers = wsClient.timers
              /\ wsClient'.notified = wsClient.notified + 1
              /\ wsClient'.reconnectCount = RECONNECT_ATTEMPTS]_vars

C7_Witness ==
    /\ wsClient.shouldReconnect
    /\ wsClient.closes = RECONNECT_ATTEMPTS + 1
    /\ wsClient.reconnectCount = RECONNECT_ATTEMPTS
    /\ wsClient.notified = 1
    /\ wsClient.timers = <<>>

\* C8: at most one WebSocket of the client is connecting or open.
C8_SingleLiveSocket == Cardinality(LiveSockets(wsClient)) <= 1

(***************************************************************************)
(* Properties of ChatPanel                                                 *)
(***************************************************************************)
\* the recordings whose MediaRecorder is recording
Recording == {k \in 1..Len(cp.rec) : cp.rec[k].phase = "recording"}

\* C9: at most one recording session is active at a time, whichever of the
\* manual start, the hold timer, the VAD effect and the VAD restart timer
\* calls startRecording
C9_SingleRecordingSession == Cardinality(Recording) <= 1

\* C10: a hold released before MIN_PTT_HOLD_MS has started no recording; a
\* hold released after it, whose recording has got its microphone, has made
\* exactly one recording start and exactly one stop with transmit
C10_PushToTalkHold ==
    /\ (ptt.releasedAt >= 0 /\ ptt.releasedAt < MIN_PTT_HOLD_MS)
          => ptt.starts = 0
    /\ (/\ ptt.releasedAt > MIN_PTT_HOLD_MS
        /\ ptt.session # 0
        /\ cp.rec[ptt.session].phase \notin {"acquiring", "failed"})
          => (ptt.starts = 1 /\ ptt.stops = 1)

\* a step that is a frame callback of the analyser loop (tick): it uses up
\* the frame that has come and, at most, stops recorders to send
TickTaken ==
    /\ cp.vadRafDue
    /\ ~cp'.vadRafDue
    /\ cp'.voiceMode = cp.voiceMode
    /\ cp'.mediaRecorderRef = cp.mediaRecorderRef
    /\ Len(cp'.rec) = Len(cp.rec)
    /\ \A k \in 1..Len(cp.rec) :
          \/ cp'.rec[k].phase = cp.rec[k].phase
          \/ cp'.rec[k].phase = "stopping" /\ cp'.rec[k].stopSend

\* the step stops the recorder the panel holds
RecorderGoesStopping ==
    /\ cp.mediaRecorderRef # 0
    /\ cp.rec[cp.mediaRecorderRef].phase = "recording"
    /\ cp'.rec[cp.mediaRecorderRef].phase = "stopping"

\* the recorder the panel holds is recording
RecorderRecording ==
    cp.mediaRecorderRef # 0 /\ cp.rec[cp.mediaRecorderRef].phase = "recording"

\* at the frame that has come, speech has been seen and the last loud
\* sample is VAD_SILENCE_MS or more in the past
SilenceWindowPassed ==
    /\ cp.vadSpeechDetectedRef
    /\ cp.clock - cp.vadLastVoiceTsRef >= VAD_SILENCE_MS

\* at the frame that has come, VAD_MAX_MS or more have passed since set-up
CeilingPassed == cp.clock - cp.vadStartTsRef >= VAD_MAX_MS

\* C11: below the ceiling a frame of the analyser loop stops the recording
\* only if speech has been seen and the last loud sample is 900 ms or more in
\* the past; a frame at which that is so stops the recording, to send, unless
\* its own sample is loud
C11_SilenceStop ==
    [][TickTaken =>
         /\ (RecorderGoesStopping /\ ~CeilingPassed) => SilenceWindowPassed
         /\ (SilenceWindowPassed /\ RecorderRecording)
               => \/ /\ RecorderGoesStopping
                     /\ cp'.rec[cp.mediaRecorderRef].stopSend
                     /\ ~cp'.skipSendRef
                  \/ cp'.vadLastVoiceTsRef = cp.clock]_vars

\* speech was seen until 500 ms, and the frame at 1400 ms has come
C11_Witness ==
    /\ cp.vadRafDue
    /\ RecorderRecording
    /\ cp.vadSpeechDetectedRef
    /\ cp.vadLastVoiceTsRef - cp.vadStartTsRef = 500
    /\ cp.clock - cp.vadStartTsRef = 500 + VAD_SILENCE_MS

\* C12 as claimed: a recording that the analyser loop stops while the sound
\* is still loud is stopped exactly VAD_MAX_MS after set-up
C12_AsClaimed ==
    [][(TickTaken /\ RecorderGoesStopping /\ ~SilenceWindowPassed)
          => cp.clock - cp.vadStartTsRef = VAD_MAX_MS]_vars

\* C12 (amended): the first frame of the analyser loop that comes 15000 ms
\* or more after set-up stops the recording, to send, whatever the speech
\* state; without a silence window no frame before that stops it; and a
\* loop that has requested its next frame is less than 15000 ms from set-up
C12_CeilingStop ==
    [][/\ TickTaken =>
            /\ (CeilingPassed /\ RecorderRecording)
                  => /\ RecorderGoesStopping
                     /\ cp'.rec[cp.mediaRecorderRef].stopSend
            /\ (RecorderGoesStopping /\ ~SilenceWindowPassed) => CeilingPassed
       /\ (cp'.vadRafRef /\ ~cp'.vadRafDue)
            => cp'.clock - cp'.vadStartTsRef < VAD_MAX_MS]_vars

\* the sound has been loud at every frame, and a frame has come after the
\* ceiling
C12_Witness ==
    /\ cp.vadRafDue
    /\ RecorderRecording
    /\ cp.vadSpeechDetectedRef
    /\ cp.clock - cp.vadLastVoiceTsRef < VAD_SILENCE_MS
    /\ cp.clock - cp.vadStartTsRef > VAD_MAX_MS

\* the step sets the auto-restart timer
RestartScheduled ==
    /\ cp'.vadRestartTimeoutRef # 0
    /\ cp'.vadRestartTimeoutRef # cp.vadRestartTimeoutRef

\* C13: the auto-restart timer is set only by the stop handler of a recording
\* started by VAD whose audio was sent and transmitted, while the mode is
\* VAD and the session live and connected
C13_RestartAfterTransmit ==
    [][RestartScheduled =>
         LET k == cp'.vadRestartTimeoutRef IN
         /\ cp'.rec[k].useVad
         /\ cp'.rec[k].stopSend
         /\ cp'.rec[k].transmitted
         /\ cp'.voiceMode = "vad"
         /\ cp'.isLiveMode
         /\ cp'.wsStatus = "connected"]_vars

\* the recordings started by VAD whose recorder is recording
VadRecording ==
    {k \in 1..Len(cp.rec) : cp.rec[k].useVad /\ cp.rec[k].phase = "recording"}

\* C14: while the selected mode is not VAD, no recording started by VAD is
\* recording, no auto-restart is pending, and a recording that was cancelled
\* has transmitted nothing
C14_NoVadOutsideVadMode ==
    /\ cp.voiceMode # "vad"
          => (VadRecording = {} /\ cp.vadRestartTimeoutRef = 0)
    /\ \A k \in 1..Len(cp.rec) :
          (cp.rec[k].phase = "done" /\ ~cp.rec[k].stopSend)
             => ~cp.rec[k].transmitted

\* the step completes a live-stop: endLiveSession has settled and the
\* finally block of handleStopLive has run
LiveStopCompletes == cp'.stopLivePending < cp.stopLivePending

\* C15: a live-stop that completes leaves the license id and the streaming
\* address empty, the live flag false and the phase idle, however
\* endLiveSession settled
C15_StopLiveResets ==
    [][LiveStopCompletes =>
         /\ cp'.licenseId = 0
         /\ ~cp'.streamingUrl
         /\ ~cp'.isLiveMode
         /\ cp'.liveStatus = "idle"]_vars

\* a live-stop whose endLiveSession failed has completed
C15_Witness ==
    /\ cp.stopLiveRejected
    /\ cp.stopLivePending = 0
    /\ cp.licenses > 0
    /\ cp.licenseId = 0
    /\ ~cp.streamingUrl
    /\ ~cp.isLiveMode
    /\ cp.liveStatus = "idle"

\* C16: no live-stop ends rejected because endLiveSession failed
C16_StopLiveNeverRejects == ~cp.stopLiveRejected

\* C17: at most one live session is being negotiated or held at a time
C17_SingleLiveNegotiation ==
    cp.startLivePending
      + (IF cp.isLiveMode /\ cp.licenseId # 0 THEN 1 ELSE 0) <= 1

IsPrefix(a, b) == Len(a) <= Len(b) /\ SubSeq(b, 1, Len(a)) = a

HistoryTurns(p) == SelectSeq(p.messages, LAMBDA t : t.isHistory)

\* C18: the message list is append-only: every step leaves the turns already
\* in the list in place, in order, at the head of the new list, and history
\* turns enter the list only while it holds no live turn.
C18_AppendOnly ==
    [][/\ IsPrefix(cp.messages, cp'.messages)
       /\ (HistoryTurns(cp') # HistoryTurns(cp) => LiveTurns(cp) = <<>>)]_vars

\* a successful history load is applied in this step
HistoryLoaded ==
    /\ cp'.historyPending < cp.historyPending
    /\ cp'.messages # <<>>
    /\ cp'.messages[Len(cp'.messages)].content \in {"loaded", "loadedMore"}

YieldsUser(r) == r.direction \in {"outgoing", "none"} /\ r.request # ""

YieldsAssistant(r) == r.direction \in {"incoming", "none"} /\ r.answer # ""

RECURSIVE ClaimedMerge(_)
ClaimedMerge(recs) ==
    IF recs = <<>> THEN <<>>
    ELSE LET r == Head(recs) IN
         (IF YieldsUser(r) THEN <<Turn("user", r.request, TRUE)>> ELSE <<>>)
         \o (IF YieldsAssistant(r)
             THEN <<Turn("assistant", r.answer, TRUE)>> ELSE <<>>)
         \o ClaimedMerge(Tail(recs))

C20_NoCallbackAfterTeardown ==
    [][/\ \A k \in 1..Len(clients) :
            ~clients[k].ws.shouldReconnect
              => Len(clients'[k].ws.sock) = Len(clients[k].ws.sock)
       /\ (cp.unmounted => Len(cp'.rec) = Len(cp.rec))]_vars

\* the recording session rec[k] has ended
SessionEnded(k) == cp.rec[k].phase \in {"done", "failed"}

\* C21: a recording session that has ended holds no live microphone track
\* and no analyser.
C21_CaptureReleased ==
    \A k \in 1..Len(cp.rec) :
        SessionEnded(k) => ~cp.rec[k].streamLive /\ cp.vadCtxRef # k

\* C22: the attempt counter of the socket client never exceeds
\* reconnectAttempts.
C22_ReconnectCountBounded == wsClient.reconnectCount <= RECONNECT_ATTEMPTS

\* the counter is at its maximum and a further unexpected close has been
\* handled
C22_Witness ==
    /\ wsClient.reconnectCount = RECONNECT_ATTEMPTS
    /\ wsClient.closes > RECONNECT_ATTEMPTS

\* C23: in every state of the client a second disconnect() right after a
\* first one changes nothing: it closes no socket, notifies nobody, schedules
\* nothing and leaves the fields as the first call left them.
C23_DisconnectIdempotent ==
    WsDisconnect(WsDisconnect(wsClient)) = WsDisconnect(wsClient)

\* disconnect() has closed a socket that was connecting or open
C23_Witness ==
    /\ wsClient.userClosed
    /\ wsClient.ws = 0
    /\ \E i \in 1..Len(wsClient.sock) : wsClient.sock[i] = "CLOSING"

\* C24: send() hands a frame to the socket exactly when the current socket
\* is open, and is a no-op otherwise: a step that transmits starts from an
\* open socket and changes nothing else, and a send() on a client whose
\* socket is not open leaves the client as it is.
C24_SendOnlyWhenOpen ==
    [][/\ (~AlreadyOpen(wsClient) => WsSend(wsClient) = wsClient)
       /\ (wsClient'.sent # wsClient.sent =>
             /\ AlreadyOpen(wsClient)
             /\ wsClient' = [wsClient EXCEPT !.sent = @ + 1])]_vars

\* a frame has been transmitted and the client is now waiting to reconnect
C24_Witness ==
    /\ wsClient.sent = 1
    /\ ~AlreadyOpen(wsClient)
    /\ wsClient.timers # <<>>

\* C25: the timeout is armed exactly while an attempt is fetching, and when
\* it fires that call alone is rejected, with a NetworkError; every other
\* call is left as it is.
C25_TimeoutPerAttempt ==
    [][/\ \A c \in Calls : call[c].timer <=> call[c].pc = "fetching"
       /\ \A c \in Calls :
            (call'[c].aborted /\ ~call[c].aborted) =>
               /\ call[c].pc = "fetching"
               /\ call'[c].pc = "rejected"
               /\ call'[c].err = [kind |-> "NetworkError", status |-> 0]
               /\ \A d \in Calls \ {c} : call'[d] = call[d]]_vars

\* the timeout has aborted a retry of one call while another call is
\* fetching
C25_Witness ==
    \E c, d \in Calls :
        /\ call[c].aborted
        /\ call[c].requests > 1
        /\ call[d].pc = "fetching"

\* the frames that parse, in arrival order
RECURSIVE ParsedFrom(_, _)
ParsedFrom(frames, i) ==
    IF i > Len(frames) THEN <<>>
    ELSE (IF frames[i] THEN <<i>> ELSE <<>>) \o ParsedFrom(frames, i + 1)

\* C26: the message events emitted are the frames that parse, in arrival
\* order, and the arrival of a frame that does not parse changes nothing of
\* the client but the record of the arrival: no socket is closed, no
\* reconnect is scheduled and nobody is notified.
C26_MalformedFrameDropped ==
    [][/\ wsClient.delivered = ParsedFrom(wsClient.frames, 1)
       /\ wsClient'.delivered = ParsedFrom(wsClient'.frames, 1)
       /\ (Len(wsClient'.frames) > Len(wsClient.frames)
             /\ ~wsClient'.frames[Len(wsClient'.frames)])
            => wsClient' = [wsClient EXCEPT !.frames = Append(@, FALSE)]]_vars

\* a frame that does not parse was dropped and the frame after it delivered
C26_Witness ==
    /\ wsClient.frames = <<FALSE, TRUE>>
    /\ wsClient.delivered = <<2>>
    /\ AlreadyOpen(wsClient)

\* C27: every request carries the credential held when it is issued, the
\* held credential is never replaced by an older one, and the replay that
\* follows a successful refresh carries the token of that refresh, which is
\* then the held credential.
C27_RefreshedTokenUsed ==
    [][/\ jwtToken' >= jwtToken
       /\ \A c \in Calls :
            /\ call'[c].requests > call[c].requests
                 => sentToken' = jwtToken' /\ sentToken' >= jwtToken
            /\ (call[c].pc = "awaitRefresh" /\ call'[c].pc = "fetching")
                 => /\ jwtToken' = call[c].awaiting
                    /\ sentToken' = call[c].awaiting]_vars

\* a call replayed with the token of the second refresh
C27_Witness ==
    \E c \in Calls :
        /\ call[c].first403
        /\ call[c].requests = 2
        /\ call[c].pc = "fetching"
        /\ sentToken = 2
        /\ jwtToken = 2

\* C28: a live stop that has begun ends in phase idle with the license id
\* cleared.
C28_StopLiveTerminates ==
    (cp.liveStatus = "stopping") ~> (cp.liveStatus = "idle" /\ cp.licenseId = 0)

\* C29: the auto-restart timer is set only by the stop handler of a
\* recording that VAD started, and while a recorder is recording the
\* recorded mode is VAD exactly if VAD started that recording.
C29_ModeDecidesRestart ==
    [][/\ RestartScheduled => cp'.rec[cp'.vadRestartTimeoutRef].useVad
       /\ \A k \in 1..Len(cp.rec) :
            (cp.mediaRecorderRef = k /\ cp.rec[k].phase = "recording")
               => (cp.recordingModeRef = "vad" <=> cp.rec[k].useVad)]_vars


\* the step is the catch block of handleStartLive: a startLiveSession
\* request has settled without a license
StartLiveFails ==
    /\ cp'.startLivePending < cp.startLivePending
    /\ cp'.licenses = cp.licenses

\* C30: when startLiveSession fails the phase becomes error, with the live
\* flag false, no license id and no streaming address held, and from the
\* error phase of a connected panel Start Live can be clicked again.
C30_StartFailureLeavesNoSession ==
    [][/\ StartLiveFails =>
            /\ cp'.liveStatus = "error"
            /\ ~cp'.isLiveMode
            /\ cp'.licenseId = 0
            /\ ~cp'.streamingUrl
       /\ (/\ cp.liveStatus = "error"
           /\ cp.wsStatus = "connected"
           /\ ~cp.isLiveMode
           /\ cp.licenses + cp.startLivePending < MaxLive)
             => ENABLED HandleStartLive]_vars


\* the step handles a frame of the given kind that carries an answer text
HandlesFrame(kind, text) ==
    /\ text # ""
    /\ cp' # cp
    /\ cp' = handleIncomingMessage(cp, kind, text)

\* C31: an incoming frame and an event frame that carry an answer text
\* both append an assistant turn with that text.
C31_EventLikeIncoming ==
    [][\A kind \in {"incoming", "event"}, text \in {"hello"} :
          HandlesFrame(kind, text) =>
             /\ Len(cp'.messages) = Len(cp.messages) + 1
             /\ cp'.messages[Len(cp'.messages)].role = "assistant"]_vars


\* the step is the open event of a socket of the client
SocketOpens ==
    \E i \in 1..Len(wsClient.sock) :
        wsClient.sock[i] = "CONNECTING" /\ wsClient'.sock[i] = "OPEN"

\* C32 as claimed: the open of a socket leaves the attempt counter at 0 and
\* the client with its whole budget of automatic reconnects (the next close
\* would schedule one), and every reconnect timer is set to reconnectDelay.
C32_AsClaimed ==
    [][/\ SocketOpens => /\ wsClient'.reconnectCount = 0
                         /\ AttemptsRemain(wsClient')
       /\ \A t \in 1..Len(wsClient'.timers) :
              wsClient'.timers[t] = RECONNECT_DELAY]_vars

\* C32 (amended): the open of a socket leaves the attempt counter at 0, so
\* that a client on which disconnect() was never called has its whole budget
\* of automatic reconnects again, and every reconnect timer is set to
\* reconnectDelay.
C32_OpenResetsCount ==
    [][/\ SocketOpens =>
            /\ wsClient'.reconnectCount = 0
            /\ wsClient'.shouldReconnect => AttemptsRemain(wsClient')
       /\ \A t \in 1..Len(wsClient'.timers) :
              wsClient'.timers[t] = RECONNECT_DELAY]_vars

\* a socket created by a reconnect timer has opened after unexpected closes
\* had used up part of the budget
C32_Witness ==
    /\ wsClient.shouldReconnect
    /\ Len(wsClient.sock) = 3
    /\ wsClient.sock = <<"CLOSED", "CLOSED", "OPEN">>
    /\ wsClient.reconnectCount = 0
    /\ wsClient.timers = <<>>


\* C33: one retry counter serves the 403 path and the 503/504 path: a call
\* issues at most 4 requests and goes through at most one refresh, it has
\* gone through a refresh exactly if its first response was 403, a 403 after
\* 503/504 retries rejects it with RavatarApiError(403) and no refresh, and
\* after a refresh and its replay 503/504 responses are retried twice only,
\* after 2000 and 4000 ms.
C33_SharedRetryCounter ==
    \A c \in Calls :
        LET r == call[c] IN
        /\ r.requests <= MAX_RETRY_ATTEMPTS + 1
        /\ r.refreshes <= 1
        /\ r.nResponses > 0 => (r.refreshes = 1 <=> r.first403)
        /\ (r.last = AUTH_EXPIRED_STATUS_CODE /\ r.nRetryable > 0 /\ ~r.first403)
             => /\ r.pc = "rejected"
                /\ r.err = ApiError(AUTH_EXPIRED_STATUS_CODE)
                /\ r.refreshes = 0
                /\ r.requests = r.nResponses
        /\ r.first403
             => /\ r.delays = SubSeq(<<2000, 4000>>, 1, Len(r.delays))
                /\ r.nRetryable <= MAX_RETRY_ATTEMPTS
                /\ (r.nRetryable = MAX_RETRY_ATTEMPTS /\ r.last \in RETRYABLE_STATUS_CODES)
                     => /\ r.pc = "rejected"
                        /\ r.err = ApiError(r.last)
                        /\ r.delays = <<2000, 4000>>
                        /\ r.requests = MAX_RETRY_ATTEMPTS + 1

\* a call refreshed after its first response, then answered 503/504 three
\* times, and a call answered 403 after a 503/504 retry
C33_Witness ==
    \E c1, c2 \in Calls :
        /\ call[c1].first403
        /\ call[c1].nRetryable = MAX_RETRY_ATTEMPTS
        /\ call[c1].pc = "rejected"
        /\ call[c1].requests = MAX_RETRY_ATTEMPTS + 1
        /\ ~call[c2].first403
        /\ call[c2].nRetryable > 0
        /\ call[c2].last = AUTH_EXPIRED_STATUS_CODE
        /\ call[c2].pc = "rejected"


\* the step is the rejection of the refreshJwt() invocation id
RefreshRejects(id) ==
    /\ id \in refreshInFlight
    /\ id \notin refreshInFlight'
    /\ jwtToken' # id

C35_ConnectedMeansOpen ==
    cp.wsStatus = "connected"
      => /\ cp.wsClientRef # 0
         /\ AlreadyOpen(clients[cp.wsClientRef].ws)


\* C36: the recording started by a push-to-talk hold is not recording once
\* that hold has been released.
C36_ReleaseStopsRecording ==
    (~ptt.down /\ ptt.releasedAt >= 0 /\ ptt.session # 0)
       => cp.rec[ptt.session].phase # "recording"


\* the clients of the panel that have a connecting or open socket, or a
\* reconnect timer pending
LiveClients ==
    {k \in 1..Len(clients) :
        LiveSockets(clients[k].ws) # {} \/ clients[k].ws.timers # <<>>}

\* C37: at most one client of the panel has a connecting or open socket or
\* is waiting to reconnect, and a client that the panel no longer refers to
\* has been disconnected.
C37_SingleClient ==
    /\ Cardinality(LiveClients) <= 1
    /\ \A k \in 1..Len(clients) :
          k # cp.wsClientRef => ~clients[k].ws.shouldReconnect


\* the step is a close event after which a client calls its close
\* subscribers
CloseNotified ==
    \E k \in 1..Len(clients) : clients'[k].ws.notified > clients[k].ws.notified

\* C38: when a client notifies its close subscribers while a live session
\* is held, the panel starts the live stop: the phase becomes stopping and
\* an endLiveSession request is issued for the license held.
C38_CloseEndsLive ==
    [][(CloseNotified /\ cp.isLiveMode /\ cp.licenseId # 0)
          => /\ cp'.liveStatus = "stopping"
             /\ cp'.stopLivePending = cp.stopLivePending + 1]_vars


\* C39: the "Voice sent" notice is posted for a recording only if its frame
\* was transmitted on an open socket, and a stop handler that posted the
\* notice sets the auto-restart timer only if the frame was transmitted.
C39_VoiceSentMeansTransmitted ==
    [][/\ \A k \in 1..Len(cp'.rec) :
             cp'.rec[k].voiceSent => cp'.rec[k].transmitted
       /\ (RestartScheduled /\ cp'.rec[cp'.vadRestartTimeoutRef].voiceSent)
             => cp'.rec[cp'.vadRestartTimeoutRef].transmitted]_vars


\* C40: the stop handler of a recording goes on to send its audio exactly
\* if that recording was stopped with send requested, whatever flag other
\* recordings, stop requests and start attempts have set in between.
C40_SkipSendPerRecording ==
    [][\A k \in 1..Len(cp.rec) :
          (cp.rec[k].phase = "stopping" /\ cp'.rec[k].phase # "stopping")
             => (cp'.rec[k].phase = "encoding" <=> cp.rec[k].stopSend)]_vars

====
